---- MODULE Spec2Model ----
(***************************************************************************)
(* Model of workout_creator.py: the text parser (WorkoutParser), the       *)
(* workout model (WorkoutStep, Workout) and the step encoder               *)
(* (FitWorkoutBuilder), together with the create_workout_fit pipeline.     *)
(*                                                                         *)
(* Python str values are TLA+ strings; a character is a string of length 1.*)
(* Python float values are fixed-point integers counting tenths (the lines *)
(* of the model carry at most one fractional digit), so 87.5 is 875 and    *)
(* float("85") is 850.  Optional[int] values are sequences of length 0     *)
(* (None) or 1.  None of an enum-valued field is the string "None".        *)
(***************************************************************************)
EXTENDS Integers, Sequences, FiniteSets, TLC

VARIABLES
    pc,               \* position in create_workout_fit / FitWorkoutBuilder.build
    text,             \* workout_text handed to WorkoutParser.parse
    lines,            \* parse: the list `lines`
    line_idx,         \* parse: number of entries of `lines` consumed by the for loop
    steps,            \* parse: the list `steps`; afterwards the list handed to Workout()
    error,            \* the exception raised, <<>> when none
    workout,          \* the Workout object: <<>> before construction, else <<[name, steps]>>
    num_valid_steps,  \* header record: <<>> before _create_workout_message, else <<n>>
    step_index,       \* FitWorkoutBuilder.step_index
    pos,              \* _create_workout_steps: number of top-level steps consumed
    messages,         \* _create_workout_steps: the list `messages`
    written,          \* TRUE once Path(output_path).write_bytes has run
    total,            \* the value read from Workout.total_duration_seconds, <<>> before
    returned          \* the lists returned by the calls of _create_workout_steps so far

vars == <<pc, text, lines, line_idx, steps, error, workout, num_valid_steps,
          step_index, pos, messages, written, total, returned>>

----------------------------------------------------------------------------
(* str helpers *)

Ch(s, i) == SubSeq(s, i, i)

UpperChars == "ABCDEFGHIJKLMNOPQRSTUVWXYZ"
LowerChars == "abcdefghijklmnopqrstuvwxyz"

LowerMap == [c \in {Ch(UpperChars, k) : k \in 1..26} |->
                Ch(LowerChars, CHOOSE k \in 1..26 : Ch(UpperChars, k) = c)]

LowerCh(c) == IF c \in DOMAIN LowerMap THEN LowerMap[c] ELSE c

RECURSIVE Lower(_)
Lower(s) == IF s = "" THEN "" ELSE LowerCh(Ch(s, 1)) \o Lower(SubSeq(s, 2, Len(s)))

Whitespace == {" ", "\t", "\n", "\r"}

RECURSIVE LStrip(_)
LStrip(s) == IF s # "" /\ Ch(s, 1) \in Whitespace THEN LStrip(SubSeq(s, 2, Len(s))) ELSE s

RECURSIVE RStrip(_)
RStrip(s) == IF s # "" /\ Ch(s, Len(s)) \in Whitespace THEN RStrip(SubSeq(s, 1, Len(s) - 1)) ELSE s

Strip(s) == RStrip(LStrip(s))

StartsWith(s, p) == Len(s) >= Len(p) /\ SubSeq(s, 1, Len(p)) = p

\* `sub in s`
Contains(s, sub) == \E i \in 1..(Len(s) - Len(sub) + 1) : SubSeq(s, i, i + Len(sub) - 1) = sub

\* s.split('\n')
RECURSIVE SplitLines(_, _)
SplitLines(s, acc) ==
    IF s = "" THEN <<acc>>
    ELSE IF Ch(s, 1) = "\n" THEN <<acc>> \o SplitLines(SubSeq(s, 2, Len(s)), "")
    ELSE SplitLines(SubSeq(s, 2, Len(s)), acc \o Ch(s, 1))

Digits == "0123456789"
DigitSet == {Ch(Digits, k) : k \in 1..10}
DigitVal(c) == (CHOOSE k \in 1..10 : Ch(Digits, k) = c) - 1

\* int(s) for a string of decimal digits
RECURSIVE IntOf(_)
IntOf(s) == IF s = "" THEN 0 ELSE IntOf(SubSeq(s, 1, Len(s) - 1)) * 10 + DigitVal(Ch(s, Len(s)))

\* str(n) for n >= 0
RECURSIVE StrOf(_)
StrOf(n) == IF n < 10 THEN Ch(Digits, n + 1) ELSE StrOf(n \div 10) \o Ch(Digits, (n % 10) + 1)

\* float(s) for s matching \d+(?:\.\d+)?, in tenths
Float(s) ==
    LET dots == {i \in 1..Len(s) : Ch(s, i) = "."}
    IN  IF dots = {} THEN IntOf(s) * 10
        ELSE LET d == CHOOSE i \in dots : TRUE
             IN  IntOf(SubSeq(s, 1, d - 1)) * 10 + DigitVal(Ch(s, d + 1))

\* float(n) of an int
FloatOfInt(n) == n * 10

\* int(x) of a non-negative float: truncation
IntTrunc(x) == x \div 10

\* f"{x:.0f}": round to nearest, ties to even
Fmt0(x) ==
    LET q == x \div 10
        r == x % 10
        n == IF r > 5 \/ (r = 5 /\ q % 2 = 1) THEN q + 1 ELSE q
    IN  StrOf(n)

----------------------------------------------------------------------------
(* re: patterns are trees of records; Match returns the matches at one     *)
(* position in the order the backtracking matcher tries them, each a       *)
(* record [j |-> position after the match, g |-> spans of the groups]      *)
(* (<<0, 0>> for a group that did not take part).  All patterns are        *)
(* compiled with re.IGNORECASE.                                            *)

Lit(s) == [t |-> "lit", s |-> s]
Set(S) == [t |-> "set", s |-> S]
Cat(a, b) == [t |-> "cat", a |-> a, b |-> b]
Alt(a, b) == [t |-> "alt", a |-> a, b |-> b]
Opt(a) == [t |-> "opt", a |-> a]
Star(a) == [t |-> "star", a |-> a]
Plus(a) == Cat(a, Star(a))
Grp(k, a) == [t |-> "grp", k |-> k, a |-> a]

RECURSIVE CatAll(_)
CatAll(ps) == IF Len(ps) = 1 THEN ps[1] ELSE Cat(ps[1], CatAll(Tail(ps)))

RECURSIVE AltAll(_)
AltAll(ps) == IF Len(ps) = 1 THEN ps[1] ELSE Alt(ps[1], AltAll(Tail(ps)))

RECURSIVE Match(_, _, _, _)
RECURSIVE MatchEach(_, _, _)
RECURSIVE StarEach(_, _, _, _)

\* continue every match of rs, in order, with pattern p
MatchEach(p, s, rs) ==
    IF rs = <<>> THEN <<>>
    ELSE Match(p, s, rs[1].j, rs[1].g) \o MatchEach(p, s, Tail(rs))

\* greedy repetition: continue every non-empty match of the body
StarEach(p, s, i, rs) ==
    IF rs = <<>> THEN <<>>
    ELSE (IF rs[1].j > i THEN Match(p, s, rs[1].j, rs[1].g) ELSE <<>>)
         \o StarEach(p, s, i, Tail(rs))

Match(p, s, i, g) ==
    CASE p.t = "lit" ->
            IF i + Len(p.s) - 1 <= Len(s) /\ Lower(SubSeq(s, i, i + Len(p.s) - 1)) = p.s
            THEN <<[j |-> i + Len(p.s), g |-> g]>> ELSE <<>>
      [] p.t = "set" ->
            IF i <= Len(s) /\ LowerCh(Ch(s, i)) \in p.s
            THEN <<[j |-> i + 1, g |-> g]>> ELSE <<>>
      [] p.t = "not" ->
            IF i <= Len(s) /\ Ch(s, i) \notin p.s
            THEN <<[j |-> i + 1, g |-> g]>> ELSE <<>>
      [] p.t = "cat" -> MatchEach(p.b, s, Match(p.a, s, i, g))
      [] p.t = "alt" -> Match(p.a, s, i, g) \o Match(p.b, s, i, g)
      [] p.t = "opt" -> Match(p.a, s, i, g) \o <<[j |-> i, g |-> g]>>
      [] p.t = "star" -> StarEach(p, s, i, Match(p.a, s, i, g)) \o <<[j |-> i, g |-> g]>>
      [] p.t = "grp" ->
            LET rs == Match(p.a, s, i, g)
            IN  [n \in 1..Len(rs) |-> [j |-> rs[n].j, g |-> [rs[n].g EXCEPT ![p.k] = <<i, rs[n].j>>]]]

NoGroups == <<<<0, 0>>, <<0, 0>>>>

\* pattern.match(s): the first match at the start of s, <<>> when none
ReMatch(p, s) ==
    LET rs == Match(p, s, 1, NoGroups)
    IN  IF rs = <<>> THEN <<>> ELSE <<[start |-> 1, end |-> rs[1].j, g |-> rs[1].g]>>

\* pattern.search(s): the first match at the leftmost position that has one
RECURSIVE SearchFrom(_, _, _)
SearchFrom(p, s, i) ==
    IF i > Len(s) + 1 THEN <<>>
    ELSE LET rs == Match(p, s, i, NoGroups)
         IN  IF rs = <<>> THEN SearchFrom(p, s, i + 1)
             ELSE <<[start |-> i, end |-> rs[1].j, g |-> rs[1].g]>>

ReSearch(p, s) == SearchFrom(p, s, 1)

\* m.group(k); "" stands for None (no group of these patterns matches empty)
Group(s, m, k) == IF m.g[k] = <<0, 0>> THEN "" ELSE SubSeq(s, m.g[k][1], m.g[k][2] - 1)

----------------------------------------------------------------------------
(* WorkoutParser: the compiled patterns *)

WS == Set({" ", "\t", "\n", "\r"})             \* \s
Dash == Set({"-"})                             \* [-–—] (the lines of the model are ASCII)
Digit == Set(DigitSet)                         \* \d
Number == Cat(Plus(Digit), Opt(Cat(Lit("."), Plus(Digit))))     \* \d+(?:\.\d+)?
OfFtp == CatAll(<<Star(WS), Lit("%"), Star(WS), Opt(Cat(Lit("of"), Plus(WS))), Lit("ftp")>>)
                                               \* \s*%\s*(?:of\s+)?ftp
DashSep == CatAll(<<Star(WS), Plus(Dash), Star(WS)>>)           \* \s*[-–—]+\s*

DURATION_PATTERN ==
    CatAll(<<Grp(1, Number), Star(WS),
             Grp(2, AltAll(<<Lit("s"), Lit("sec"), Cat(Lit("second"), Opt(Lit("s"))),
                             Lit("m"), Lit("min"), Cat(Lit("minute"), Opt(Lit("s"))),
                             Lit("h"), Lit("hr"), Cat(Lit("hour"), Opt(Lit("s")))>>))>>)

POWER_STEADY_PATTERN == Cat(Grp(1, Number), OfFtp)

POWER_RAMP_PATTERN ==
    CatAll(<<Grp(1, Number), Star(WS), Opt(Lit("%")), DashSep, Grp(2, Number), OfFtp>>)

POWER_RANGE_PATTERN ==
    CatAll(<<Grp(1, Number), DashSep, Grp(2, Number), OfFtp>>)

CADENCE_PATTERN ==
    CatAll(<<Lit("@"), Star(WS), Grp(1, Plus(Digit)),
             Opt(Cat(DashSep, Grp(2, Plus(Digit)))), Star(WS), Lit("rpm")>>)

HR_ABSOLUTE_PATTERN ==
    CatAll(<<Grp(1, Plus(Digit)), Opt(Cat(DashSep, Grp(2, Plus(Digit)))),
             Star(WS), Lit("bpm")>>)

HR_PERCENTAGE_PATTERN ==
    CatAll(<<Grp(1, Plus(Digit)), Opt(Cat(DashSep, Grp(2, Plus(Digit)))),
             Star(WS), Lit("%"), Star(WS), Opt(Cat(Lit("max"), Star(WS))), Lit("hr")>>)

Quote == "\""
NotQuote == [t |-> "not", s |-> {Quote}]        \* [^"]
NOTES_PATTERN == CatAll(<<Lit(Quote), Grp(1, Plus(NotQuote)), Lit(Quote)>>)

REPEAT_PATTERN == CatAll(<<Grp(1, Plus(Digit)), Star(WS), Lit("x"), Plus(WS)>>)

\* the dicts, in insertion order
SPECIAL_KEYWORDS ==
    << <<"warmup", "WARMUP">>, <<"warm-up", "WARMUP">>, <<"warm up", "WARMUP">>,
       <<"cooldown", "COOLDOWN">>, <<"cool-down", "COOLDOWN">>, <<"cool down", "COOLDOWN">>,
       <<"recovery", "RECOVERY">>, <<"rest", "RECOVERY">>,
       <<"open", "OPEN">>, <<"free", "OPEN">>, <<"free ride", "OPEN">>, <<"freeride", "OPEN">> >>

INTENSITY_KEYWORDS ==
    << <<"warmup", "WARMUP">>, <<"warm-up", "WARMUP">>,
       <<"cooldown", "COOLDOWN">>, <<"cool-down", "COOLDOWN">>,
       <<"recovery", "RECOVERY">>, <<"rest", "RECOVERY">>, <<"easy", "RECOVERY">>,
       <<"endurance", "ACTIVE">>, <<"tempo", "ACTIVE">>, <<"threshold", "ACTIVE">>,
       <<"sweetspot", "ACTIVE">>, <<"sweet spot", "ACTIVE">>,
       <<"vo2", "INTERVAL">>, <<"vo2max", "INTERVAL">>, <<"interval", "INTERVAL">>,
       <<"sprint", "INTERVAL">>, <<"anaerobic", "INTERVAL">> >>

\* for keyword, value in table.items(): if keyword in lower_line: ... break
\* the value of the first keyword found, <<>> when none is
FirstKeyword(table, lower_line) ==
    LET hits == {k \in 1..Len(table) : Contains(lower_line, table[k][1])}
    IN  IF hits = {} THEN <<>>
        ELSE <<table[CHOOSE k \in hits : \A h \in hits : k <= h][2]>>

----------------------------------------------------------------------------
(* WorkoutStep and Workout *)

StepDefaults ==
    [target_type |-> "POWER", power_low_pct |-> 0, power_high_pct |-> 0,
     hr_target_type |-> "None", hr_low |-> 0, hr_high |-> 0, hr_is_percentage |-> FALSE,
     cadence_low |-> <<>>, cadence_high |-> <<>>,
     name |-> "", notes |-> "", intensity |-> "None",
     repeat_count |-> 1, repeat_steps |-> <<>>]

\* WorkoutStep.__post_init__
PostInit(st) ==
    LET a == IF st.step_type = "STEADY" /\ st.power_high_pct = 0
             THEN [st EXCEPT !.power_high_pct = st.power_low_pct] ELSE st
    IN  IF a.cadence_low # <<>> /\ a.cadence_high = <<>>
        THEN [a EXCEPT !.cadence_high = a.cadence_low] ELSE a

\* WorkoutStep(**f): the dataclass constructor with its field defaults
WorkoutStep(f) ==
    PostInit([k \in DOMAIN StepDefaults \cup DOMAIN f |->
                 IF k \in DOMAIN f THEN f[k] ELSE StepDefaults[k]])

\* total_duration_seconds without `* step.repeat_count`
RECURSIVE TotalDurationOnce(_)
TotalDurationOnce(ss) ==
    IF ss = <<>> THEN 0
    ELSE (IF ss[1].step_type = "REPEAT"
          THEN LET RECURSIVE S(_)
                   S(k) == IF k = 0 THEN 0 ELSE S(k - 1) + ss[1].repeat_steps[k].duration_seconds
               IN  S(Len(ss[1].repeat_steps))
          ELSE ss[1].duration_seconds)
         + TotalDurationOnce(Tail(ss))

RECURSIVE SumDurations(_)
SumDurations(ss) == IF ss = <<>> THEN 0 ELSE ss[1].duration_seconds + SumDurations(Tail(ss))

\* Workout.total_duration_seconds
RECURSIVE total_duration_seconds(_)
total_duration_seconds(ss) ==
    IF ss = <<>> THEN 0
    ELSE (IF ss[1].step_type = "REPEAT"
          THEN SumDurations(ss[1].repeat_steps) * ss[1].repeat_count
          ELSE ss[1].duration_seconds)
         + total_duration_seconds(Tail(ss))

----------------------------------------------------------------------------
(* WorkoutParser._parse_line and its helpers.  A call returns               *)
(* [ok |-> TRUE, step |-> the WorkoutStep] or [ok |-> FALSE, msg |-> the    *)
(* text of the exception it raises].  A local variable of the code that     *)
(* holds a match or a parse result is the parameter of a LET operator.     *)

Return(st) == [ok |-> TRUE, step |-> st]
Raise(msg) == [ok |-> FALSE, msg |-> msg]

\* _parse_duration: <<>> for None, else <<seconds>>
ParseDuration(line) ==
    LET Seconds(value, unit) ==
            IF unit \in {"s", "sec", "second", "seconds"} THEN <<value>>
            ELSE IF unit \in {"m", "min", "minute", "minutes"} THEN <<value * 60>>
            ELSE IF unit \in {"h", "hr", "hour", "hours"} THEN <<value * 3600>>
            ELSE <<>>
        Duration(m) ==
            IF m = <<>> THEN <<>>
            ELSE Seconds(Float(Group(line, m[1], 1)), Lower(Group(line, m[1], 2)))
    IN  Duration(ReSearch(DURATION_PATTERN, line))

\* notes or default
OrElse(notes, default) == IF notes # "" THEN notes ELSE default

CreateSpecialStep(step_type, duration, notes) ==
    CASE step_type = "WARMUP" ->
            WorkoutStep([step_type |-> "RAMP", duration_seconds |-> duration,
                         target_type |-> "POWER",
                         power_low_pct |-> FloatOfInt(40), power_high_pct |-> FloatOfInt(75),
                         name |-> "Warmup",
                         notes |-> OrElse(notes, "Easy spin, gradually increase effort"),
                         intensity |-> "WARMUP"])
      [] step_type = "COOLDOWN" ->
            WorkoutStep([step_type |-> "RAMP", duration_seconds |-> duration,
                         target_type |-> "POWER",
                         power_low_pct |-> FloatOfInt(65), power_high_pct |-> FloatOfInt(40),
                         name |-> "Cooldown",
                         notes |-> OrElse(notes, "Easy spin, relax"),
                         intensity |-> "COOLDOWN"])
      [] step_type = "RECOVERY" ->
            WorkoutStep([step_type |-> "STEADY", duration_seconds |-> duration,
                         target_type |-> "POWER",
                         power_low_pct |-> FloatOfInt(50), power_high_pct |-> FloatOfInt(50),
                         name |-> "Recovery",
                         notes |-> OrElse(notes, "Easy spinning, recover"),
                         intensity |-> "RECOVERY"])
      [] step_type = "OPEN" ->
            WorkoutStep([step_type |-> "OPEN", duration_seconds |-> duration,
                         target_type |-> "OPEN",
                         name |-> "Free Ride",
                         notes |-> OrElse(notes, "Ride at your own pace"),
                         intensity |-> "ACTIVE"])

\* if manual_intensity: step.intensity = manual_intensity
ApplyIntensity(st, manual_intensity) ==
    IF manual_intensity # <<>> THEN [st EXCEPT !.intensity = manual_intensity[1]] ELSE st

\* the repeat wrapping with `repeat_count >= 1`
WrapRepeatFromOne(st, repeat_count) ==
    IF repeat_count >= 1
    THEN WorkoutStep([step_type |-> "REPEAT", duration_seconds |-> 0,
                      repeat_count |-> repeat_count, repeat_steps |-> <<st>>,
                      name |-> StrOf(repeat_count) \o "x " \o st.name])
    ELSE st

\* if repeat_count > 1: return WorkoutStep(step_type=REPEAT, ...); return step
WrapRepeat(st, repeat_count) ==
    IF repeat_count > 1
    THEN WorkoutStep([step_type |-> "REPEAT", duration_seconds |-> 0,
                      repeat_count |-> repeat_count, repeat_steps |-> <<st>>,
                      name |-> StrOf(repeat_count) \o "x " \o st.name])
    ELSE st

\* lines 281-286: the first quoted note and the line without it
ExtractNotes(line) ==
    LET Notes(m) ==
            IF m = <<>> THEN [notes |-> "", line |-> line]
            ELSE [notes |-> Group(line, m[1], 1),
                  line |-> SubSeq(line, 1, m[1].start - 1) \o SubSeq(line, m[1].end, Len(line))]
    IN  Notes(ReSearch(NOTES_PATTERN, line))

\* lines 288-293: the repeat count and the line after the prefix
ExtractRepeat(line) ==
    LET Prefix(m) ==
            IF m = <<>> THEN [repeat_count |-> 1, line |-> line]
            ELSE [repeat_count |-> IntOf(Group(line, m[1], 1)),
                  line |-> Strip(SubSeq(line, m[1].end, Len(line)))]
    IN  Prefix(ReMatch(REPEAT_PATTERN, line))

\* lines 329-334: (cadence_low, cadence_high)
ParseCadence(line) ==
    LET Cadence(m) ==
            IF m = <<>> THEN [low |-> <<>>, high |-> <<>>]
            ELSE LET lo == IntOf(Group(line, m[1], 1))
                 IN  [low |-> <<lo>>,
                      high |-> IF Group(line, m[1], 2) # ""
                               THEN <<IntOf(Group(line, m[1], 2))>> ELSE <<lo>>]
    IN  Cadence(ReSearch(CADENCE_PATTERN, line))

HrOf(line, m, pct) ==
    LET lo == Float(Group(line, m, 1))
    IN  [hr_low |-> lo,
         hr_high |-> IF Group(line, m, 2) # "" THEN Float(Group(line, m, 2)) ELSE lo,
         hr_is_percentage |-> pct, hr_target_type |-> "HEART_RATE"]

\* the heart rate target with the absolute match tested before the percentage
ParseHeartRateAbsoluteFirst(line) ==
    LET HeartRate(hr_pct_match, hr_abs_match) ==
            IF hr_abs_match # <<>> THEN HrOf(line, hr_abs_match[1], FALSE)
            ELSE IF hr_pct_match # <<>> THEN HrOf(line, hr_pct_match[1], TRUE)
            ELSE [hr_low |-> 0, hr_high |-> 0, hr_is_percentage |-> FALSE,
                  hr_target_type |-> "None"]
    IN  HeartRate(ReSearch(HR_PERCENTAGE_PATTERN, line), ReSearch(HR_ABSOLUTE_PATTERN, line))

\* lines 336-352: the heart rate target
ParseHeartRate(line) ==
    LET HeartRate(hr_pct_match, hr_abs_match) ==
            IF hr_pct_match # <<>> THEN HrOf(line, hr_pct_match[1], TRUE)
            ELSE IF hr_abs_match # <<>> THEN HrOf(line, hr_abs_match[1], FALSE)
            ELSE [hr_low |-> 0, hr_high |-> 0, hr_is_percentage |-> FALSE,
                  hr_target_type |-> "None"]
    IN  HeartRate(ReSearch(HR_PERCENTAGE_PATTERN, line), ReSearch(HR_ABSOLUTE_PATTERN, line))

HrName(hr) ==
    IF hr.hr_is_percentage
    THEN IF hr.hr_low # hr.hr_high
         THEN Fmt0(hr.hr_low) \o "%-" \o Fmt0(hr.hr_high) \o "% HR"
         ELSE Fmt0(hr.hr_low) \o "% HR"
    ELSE IF hr.hr_low # hr.hr_high
         THEN Fmt0(hr.hr_low) \o "-" \o Fmt0(hr.hr_high) \o " bpm"
         ELSE Fmt0(hr.hr_low) \o " bpm"

\* lines 354-434: the step of a line without special keyword
ParseTarget(line, original_line, duration, notes) ==
    LET Target(cad, hr, ramp_match, range_match, steady_match) ==
            LET Power(step_type, lo, hi, name) ==
                    WorkoutStep([step_type |-> step_type, duration_seconds |-> duration,
                                 target_type |-> "POWER",
                                 power_low_pct |-> lo, power_high_pct |-> hi,
                                 name |-> name, notes |-> notes,
                                 cadence_low |-> cad.low, cadence_high |-> cad.high,
                                 hr_target_type |-> hr.hr_target_type, hr_low |-> hr.hr_low,
                                 hr_high |-> hr.hr_high,
                                 hr_is_percentage |-> hr.hr_is_percentage])
                Ramp(power_low, power_high) ==
                    Return(Power("RAMP", power_low, power_high,
                                 "Ramp " \o Fmt0(power_low) \o "%-" \o Fmt0(power_high) \o "%"))
                Range(power_low, power_high) ==
                    Return(Power("RANGE", power_low, power_high,
                                 Fmt0(power_low) \o "-" \o Fmt0(power_high) \o "% FTP"))
                Steady(power) ==
                    Return(Power("STEADY", power, power, Fmt0(power) \o "% FTP"))
            IN  IF ramp_match # <<>> THEN
                    Ramp(Float(Group(line, ramp_match[1], 1)),
                         Float(Group(line, ramp_match[1], 2)))
                ELSE IF range_match # <<>> THEN
                    Range(Float(Group(line, range_match[1], 1)),
                          Float(Group(line, range_match[1], 2)))
                ELSE IF steady_match # <<>> THEN
                    Steady(Float(Group(line, steady_match[1], 1)))
                ELSE IF hr.hr_target_type # "None" THEN
                    Return(WorkoutStep([step_type |-> "STEADY", duration_seconds |-> duration,
                                        target_type |-> "HEART_RATE",
                                        hr_target_type |-> hr.hr_target_type,
                                        hr_low |-> hr.hr_low, hr_high |-> hr.hr_high,
                                        hr_is_percentage |-> hr.hr_is_percentage,
                                        name |-> HrName(hr), notes |-> notes,
                                        cadence_low |-> cad.low, cadence_high |-> cad.high]))
                ELSE Raise("No power or HR target found in: " \o original_line)
    IN  Target(ParseCadence(line), ParseHeartRate(line),
               ReSearch(POWER_RAMP_PATTERN, line), ReSearch(POWER_RANGE_PATTERN, line),
               ReSearch(POWER_STEADY_PATTERN, line))

\* the special-keyword branch going on to parse the targets of the line
ParseSpecialWithTargets(step_type, line, original_line, notes, manual_intensity, repeat_count) ==
    LET Step(special, r) ==
            Return(WrapRepeat(
                ApplyIntensity(IF r.ok THEN [r.step EXCEPT !.intensity = special.intensity]
                               ELSE special, manual_intensity),
                repeat_count))
        Special(duration) ==
            IF duration = <<>> THEN Raise("No duration found in: " \o original_line)
            ELSE Step(CreateSpecialStep(step_type, duration[1], notes),
                      ParseTarget(line, original_line, duration[1], notes))
    IN  Special(ParseDuration(line))

\* lines 303-322: the step of a line with a special keyword
ParseSpecial(step_type, line, original_line, notes, manual_intensity, repeat_count) ==
    LET Special(duration) ==
            IF duration = <<>> THEN Raise("No duration found in: " \o original_line)
            ELSE Return(WrapRepeat(
                     ApplyIntensity(CreateSpecialStep(step_type, duration[1], notes),
                                    manual_intensity),
                     repeat_count))
    IN  Special(ParseDuration(line))

\* lines 324-449: the step of any other line
ParseOrdinary(line, original_line, notes, manual_intensity, repeat_count) ==
    LET Step(r) ==
            IF r.ok
            THEN Return(WrapRepeat(ApplyIntensity(r.step, manual_intensity), repeat_count))
            ELSE r
        Ordinary(duration) ==
            IF duration = <<>> THEN Raise("No duration found in: " \o original_line)
            ELSE Step(ParseTarget(line, original_line, duration[1], notes))
    IN  Ordinary(ParseDuration(line))

\* _parse_line, lines 277-449
ParseLine(original_line) ==
    LET Dispatch(notes, repeat_count, line, manual_intensity, special) ==
            IF special # <<>>
            THEN ParseSpecial(special[1], line, original_line, notes, manual_intensity,
                              repeat_count)
            ELSE ParseOrdinary(line, original_line, notes, manual_intensity, repeat_count)
        AfterRepeat(notes, r, lower_line) ==
            Dispatch(notes, r.repeat_count, r.line,
                     FirstKeyword(INTENSITY_KEYWORDS, lower_line),
                     FirstKeyword(SPECIAL_KEYWORDS, lower_line))
        AfterNotes(notes, r) == AfterRepeat(notes, r, Lower(r.line))
        Line(n) == AfterNotes(n.notes, ExtractRepeat(n.line))
    IN  Line(ExtractNotes(original_line))

----------------------------------------------------------------------------
(* FitWorkoutBuilder *)

\* _count_valid_steps counting the inner steps once per repetition
RECURSIVE CountExpandedSteps(_)
CountExpandedSteps(ss) ==
    IF ss = <<>> THEN 0
    ELSE (IF ss[1].step_type = "REPEAT"
          THEN 1 + Len(ss[1].repeat_steps) * ss[1].repeat_count ELSE 1)
         + CountExpandedSteps(Tail(ss))

\* _count_valid_steps
RECURSIVE CountValidSteps(_)
CountValidSteps(ss) ==
    IF ss = <<>> THEN 0
    ELSE (IF ss[1].step_type = "REPEAT" THEN 1 + Len(ss[1].repeat_steps) ELSE 1)
         + CountValidSteps(Tail(ss))

\* _get_intensity with `avg_power <= 56`
GetIntensityInclusive(step) ==
    LET avg2 == step.power_low_pct + step.power_high_pct
        lname == Lower(step.name)
    IN  IF step.intensity # "None" THEN step.intensity
        ELSE IF step.step_type = "OPEN" THEN "ACTIVE"
        ELSE IF step.target_type = "HEART_RATE" THEN "ACTIVE"
        ELSE IF step.step_type = "WARMUP" \/ Contains(lname, "warmup") THEN "WARMUP"
        ELSE IF step.step_type = "COOLDOWN" \/ Contains(lname, "cooldown") THEN "COOLDOWN"
        ELSE IF step.step_type = "RECOVERY" \/ avg2 <= 2 * FloatOfInt(56) THEN "RECOVERY"
        ELSE IF avg2 >= 2 * FloatOfInt(106) THEN "INTERVAL"
        ELSE "ACTIVE"

GetIntensity(step) ==
    LET avg2 == step.power_low_pct + step.power_high_pct     \* 2 * avg_power
        lname == Lower(step.name)
    IN  IF step.intensity # "None" THEN step.intensity
        ELSE IF step.step_type = "OPEN" THEN "ACTIVE"
        ELSE IF step.target_type = "HEART_RATE" THEN "ACTIVE"
        ELSE IF step.step_type = "WARMUP" \/ Contains(lname, "warmup") THEN "WARMUP"
        ELSE IF step.step_type = "COOLDOWN" \/ Contains(lname, "cooldown") THEN "COOLDOWN"
        ELSE IF step.step_type = "RECOVERY" \/ avg2 < 2 * FloatOfInt(56) THEN "RECOVERY"
        ELSE IF avg2 >= 2 * FloatOfInt(106) THEN "INTERVAL"
        ELSE "ACTIVE"

FTP_SCALE == 1
HR_ABSOLUTE_OFFSET == 100
DURATION_MS_SCALE == 1000

\* " | ".join(notes_parts), <<>> when notes_parts is empty (msg.notes is not set)
StepNotes(step) ==
    LET cadence == IF step.cadence_low = <<>> THEN <<>>
                   ELSE IF step.cadence_low = step.cadence_high
                        THEN <<"Cadence: " \o StrOf(step.cadence_low[1]) \o " rpm">>
                        ELSE <<"Cadence: " \o StrOf(step.cadence_low[1]) \o "-"
                               \o StrOf(step.cadence_high[1]) \o " rpm">>
        parts == (IF step.notes # "" THEN <<step.notes>> ELSE <<>>) \o cadence
    IN  IF parts = <<>> THEN <<>>
        ELSE IF Len(parts) = 1 THEN <<parts[1]>>
        ELSE <<parts[1] \o " | " \o parts[2]>>

\* the target with HR_ABSOLUTE_OFFSET added to a percentage heart rate as well
StepTargetOffsetAlways(step) ==
    IF step.target_type = "OPEN" \/ step.step_type = "OPEN" THEN
        [target_type |-> "OPEN", low |-> <<>>, high |-> <<>>]
    ELSE IF step.target_type = "HEART_RATE" THEN
        [target_type |-> "HEART_RATE",
         low |-> <<IntTrunc(step.hr_low) + HR_ABSOLUTE_OFFSET>>,
         high |-> <<IntTrunc(step.hr_high) + HR_ABSOLUTE_OFFSET>>]
    ELSE [target_type |-> "POWER",
          low |-> <<IntTrunc(step.power_low_pct * FTP_SCALE)>>,
          high |-> <<IntTrunc(step.power_high_pct * FTP_SCALE)>>]

\* lines 639-666: target_type and the custom target values
StepTarget(step) ==
    IF step.target_type = "OPEN" \/ step.step_type = "OPEN" THEN
        [target_type |-> "OPEN", low |-> <<>>, high |-> <<>>]
    ELSE IF step.target_type = "HEART_RATE" THEN
        IF step.hr_is_percentage
        THEN [target_type |-> "HEART_RATE",
              low |-> <<IntTrunc(step.hr_low)>>, high |-> <<IntTrunc(step.hr_high)>>]
        ELSE [target_type |-> "HEART_RATE",
              low |-> <<IntTrunc(step.hr_low) + HR_ABSOLUTE_OFFSET>>,
              high |-> <<IntTrunc(step.hr_high) + HR_ABSOLUTE_OFFSET>>]
    ELSE [target_type |-> "POWER",
          low |-> <<IntTrunc(step.power_low_pct * FTP_SCALE)>>,
          high |-> <<IntTrunc(step.power_high_pct * FTP_SCALE)>>]

\* _create_single_step with `self.step_index += 1` ahead of `msg.message_index = self.step_index`
CreateSingleStepOneBased(step, index) ==
    LET tgt == StepTarget(step)
    IN  [message_index |-> index + 1,
         workout_step_name |-> IF step.name # "" THEN step.name ELSE "Step " \o StrOf(index + 2),
         notes |-> StepNotes(step),
         duration_type |-> "TIME",
         duration_value |-> <<IntTrunc(step.duration_seconds * DURATION_MS_SCALE)>>,
         duration_step |-> <<>>,
         target_type |-> tgt.target_type,
         target_value |-> 0,
         custom_target_value_low |-> tgt.low,
         custom_target_value_high |-> tgt.high,
         intensity |-> GetIntensity(step)]

\* _create_single_step with self.step_index = index; the caller adds 1 to step_index
CreateSingleStep(step, index) ==
    LET tgt == StepTarget(step)
    IN  [message_index |-> index,
         workout_step_name |-> IF step.name # "" THEN step.name ELSE "Step " \o StrOf(index + 1),
         notes |-> StepNotes(step),
         duration_type |-> "TIME",
         duration_value |-> <<IntTrunc(step.duration_seconds * DURATION_MS_SCALE)>>,
         duration_step |-> <<>>,
         target_type |-> tgt.target_type,
         target_value |-> 0,
         custom_target_value_low |-> tgt.low,
         custom_target_value_high |-> tgt.high,
         intensity |-> GetIntensity(step)]

\* lines 683-694: the repeat marker
RepeatMarker(step, index, inner_start_index) ==
    [message_index |-> index,
     workout_step_name |-> "Repeat " \o StrOf(step.repeat_count) \o "x",
     notes |-> <<>>,
     duration_type |-> "REPEAT_UNTIL_STEPS_CMPLT",
     duration_value |-> <<>>,
     duration_step |-> <<inner_start_index>>,
     target_type |-> "OPEN",
     target_value |-> step.repeat_count,
     custom_target_value_low |-> <<>>,
     custom_target_value_high |-> <<>>,
     intensity |-> "ACTIVE"]

\* _create_repeat_steps with inner_start_index read after the loop over the inner steps
CreateRepeatStepsLateStart(step, index) ==
    LET inner == [k \in 1..Len(step.repeat_steps) |->
                     CreateSingleStep(step.repeat_steps[k], index + k - 1)]
        inner_start_index == index + Len(inner)
    IN  inner \o <<RepeatMarker(step, index + Len(inner), inner_start_index)>>

\* _create_repeat_steps with self.step_index = index: the messages it returns;
\* step_index grows by one per message
CreateRepeatSteps(step, index) ==
    LET inner_start_index == index
        inner == [k \in 1..Len(step.repeat_steps) |->
                     CreateSingleStep(step.repeat_steps[k], index + k - 1)]
    IN  inner \o <<RepeatMarker(step, index + Len(inner), inner_start_index)>>

----------------------------------------------------------------------------
(* create_workout_fit, one action per statement or loop iteration *)

\* parse, line 256
NonBlankLines(t) ==
    LET raw == SplitLines(Strip(t), "")
        kept == SelectSeq(raw, LAMBDA l : Strip(l) # "")
    IN  [k \in 1..Len(kept) |-> Strip(kept[k])]

IsComment(line) == StartsWith(line, "#") \/ StartsWith(line, "//")

ParseBegin ==
    /\ pc = "parse"
    /\ lines' = NonBlankLines(text)
    /\ line_idx' = 0
    /\ steps' = <<>>
    /\ pc' = "parse_loop"
    /\ UNCHANGED <<text, error, workout, num_valid_steps, step_index, pos, messages,
                   written, total, returned>>

\* the for loop of parse with the handler skipping a line that fails, not raising
ParseLoopSkipping ==
    /\ pc = "parse_loop"
    /\ line_idx < Len(lines)
    /\ LET line_num == line_idx + 1
           line == lines[line_num]
           Kept(r) == IF ~IsComment(line) /\ r.ok THEN Append(steps, r.step) ELSE steps
       IN  /\ steps' = Kept(ParseLine(line))
           /\ line_idx' = line_num
    /\ UNCHANGED <<pc, text, lines, error, workout, num_valid_steps, step_index, pos,
                   messages, written, total, returned>>

\* one iteration of the for loop of parse (lines 258-270)
ParseLoop ==
    /\ pc = "parse_loop"
    /\ line_idx < Len(lines)
    /\ LET line_num == line_idx + 1
           line == lines[line_num]
       IN  IF IsComment(line)
           THEN /\ line_idx' = line_num
                /\ UNCHANGED <<pc, steps, error>>
           ELSE \E r \in {ParseLine(line)} :
                    IF r.ok
                    THEN /\ steps' = Append(steps, r.step)
                         /\ line_idx' = line_num
                         /\ UNCHANGED <<pc, error>>
                    ELSE /\ error' = <<[type |-> "WorkoutParseError",
                                        msg |-> "Line " \o StrOf(line_num) \o ": Failed to parse '"
                                                \o line \o "' - " \o r.msg]>>
                         /\ pc' = "raised"
                         /\ steps' = <<>>
                         /\ line_idx' = line_num
    /\ UNCHANGED <<text, lines, workout, num_valid_steps, step_index, pos, messages,
                   written, total, returned>>

\* parse, lines 272-275
ParseReturn ==
    /\ pc = "parse_loop"
    /\ line_idx = Len(lines)
    /\ IF steps = <<>>
       THEN /\ error' = <<[type |-> "WorkoutParseError", msg |-> "No valid workout steps found"]>>
            /\ pc' = "raised"
       ELSE /\ pc' = "workout"
            /\ UNCHANGED error
    /\ UNCHANGED <<text, lines, line_idx, steps, workout, num_valid_steps, step_index, pos,
                   messages, written, total, returned>>

\* Workout(name=workout_name, steps=steps): the dataclass stores its arguments
NewWorkout ==
    /\ pc = "workout"
    /\ workout' = <<[name |-> "Custom Workout", sport |-> "CYCLING", steps |-> steps]>>
    /\ pc' = "builder"
    /\ UNCHANGED <<text, lines, line_idx, steps, error, num_valid_steps, step_index, pos,
                   messages, written, total, returned>>

\* main, lines 857-860 and 882: the summary reads workout.total_duration_seconds
Summary ==
    /\ pc = "builder"
    /\ total = <<>>
    /\ total' = <<total_duration_seconds(workout[1].steps)>>
    /\ UNCHANGED <<pc, text, lines, line_idx, steps, error, workout, num_valid_steps,
                   step_index, pos, messages, written, returned>>

\* FitWorkoutBuilder.__init__
NewBuilder ==
    /\ pc = "builder"
    /\ step_index' = 0
    /\ pc' = "message"
    /\ UNCHANGED <<text, lines, line_idx, steps, error, workout, num_valid_steps, pos,
                   messages, written, total, returned>>

\* build: _create_workout_message
CreateWorkoutMessage ==
    /\ pc = "message"
    /\ num_valid_steps' = <<CountValidSteps(workout[1].steps)>>
    /\ pc' = "steps"
    /\ UNCHANGED <<text, lines, line_idx, steps, error, workout, step_index, pos, messages,
                   written, total, returned>>

\* _create_workout_steps without `self.step_index = 0`
CreateWorkoutStepsBeginNoReset ==
    /\ pc = "steps"
    /\ messages' = <<>>
    /\ pos' = 0
    /\ pc' = "steps_loop"
    /\ UNCHANGED <<text, lines, line_idx, steps, error, workout, num_valid_steps, step_index,
                   written, total, returned>>

\* _create_workout_steps, lines 601-602
CreateWorkoutStepsBegin ==
    /\ pc = "steps"
    /\ messages' = <<>>
    /\ step_index' = 0
    /\ pos' = 0
    /\ pc' = "steps_loop"
    /\ UNCHANGED <<text, lines, line_idx, steps, error, workout, num_valid_steps, written,
                   total, returned>>

\* one iteration of the for loop of _create_workout_steps (lines 604-608)
CreateWorkoutStepsLoop ==
    /\ pc = "steps_loop"
    /\ pos < Len(workout[1].steps)
    /\ LET step == workout[1].steps[pos + 1]
           new == IF step.step_type = "REPEAT"
                  THEN CreateRepeatSteps(step, step_index)
                  ELSE <<CreateSingleStep(step, step_index)>>
       IN  /\ messages' = messages \o new
           /\ step_index' = step_index + Len(new)
    /\ pos' = pos + 1
    /\ UNCHANGED <<pc, text, lines, line_idx, steps, error, workout, num_valid_steps,
                   written, total, returned>>

\* _create_workout_steps returns; build serializes the records
CreateWorkoutStepsReturn ==
    /\ pc = "steps_loop"
    /\ pos = Len(workout[1].steps)
    /\ returned' = Append(returned, messages)
    /\ pc' = "built"
    /\ UNCHANGED <<text, lines, line_idx, steps, error, workout, num_valid_steps,
                   step_index, pos, messages, written, total>>

\* create_workout_fit, lines 754-758
Finish ==
    /\ pc = "built"
    /\ \E output_path \in {"", "out.fit"} : written' = (output_path # "")
    /\ pc' = "done"
    /\ UNCHANGED <<text, lines, line_idx, steps, error, workout, num_valid_steps,
                   step_index, pos, messages, total, returned>>

Parse == ParseBegin \/ ParseLoop \/ ParseReturn

Build == \/ NewWorkout
         \/ Summary
         \/ NewBuilder
         \/ CreateWorkoutMessage
         \/ CreateWorkoutStepsBegin
         \/ CreateWorkoutStepsLoop
         \/ CreateWorkoutStepsReturn
         \/ Finish

Next == Parse \/ Build

----------------------------------------------------------------------------
(* Inputs of create_workout_fit: the texts of the model *)

MaxLines == 3

\* lines built from a repeat prefix, a duration, a target or keyword part and
\* at most one quoted note between or around them
RepeatPrefixes == {"", "3x ", "1x ", "2 X "}
DurationTokens == {"", "5min", "90 s", "1.5H"}
TargetTokens ==
    {"", "80% FTP", "85-95% FTP", "30% - 70% FTP", "87.5% of ftp tempo",
     "150 bpm", "75-85% HR @90rpm", "80% FTP 140bpm 80%HR", "@90-100rpm",
     "warmup", "Cooldown 60% FTP", "rest sprint", "open 150 bpm @ 85 rpm",
     "free ride easy", "recovery 20 sec", "cool down warm-up 110% FTP"}
NoteTexts == {"go", "rest 100% FTP"}

Join(a, b) == IF a = "" THEN b ELSE IF b = "" THEN a ELSE a \o " " \o b

Noted(n) == IF n = "" THEN "" ELSE Quote \o n \o Quote

\* where the note of a line stands
NotePlaces == {"front", "after prefix", "middle", "end"}

Compose(pre, dur, tgt, note, place) ==
    CASE place = "front" -> Join(Noted(note), pre \o Join(dur, tgt))
      [] place = "after prefix" -> pre \o Join(Noted(note), Join(dur, tgt))
      [] place = "middle" -> pre \o Join(dur, Join(Noted(note), tgt))
      [] place = "end" -> pre \o Join(dur, Join(tgt, Noted(note)))

Compositions ==
    {c \in [pre : RepeatPrefixes, dur : DurationTokens, tgt : TargetTokens,
            note : NoteTexts \cup {""}, place : NotePlaces] :
        c.note = "" => c.place = "end"}

TextOf(c) == Compose(c.pre, c.dur, c.tgt, c.note, c.place)

RichLines == {TextOf(c) : c \in Compositions}

\* texts of several lines: steps, comments, blank lines and a line that does not parse
PlainLines == {"5min 80% FTP", "3x 2min 100% FTP", "5min @90rpm", "# main set", "// 10min open", "", "  "}

RECURSIVE TextsOf(_)
TextsOf(n) ==
    IF n = 1 THEN PlainLines
    ELSE LET shorter == TextsOf(n - 1)
         IN  shorter \cup {t \o "\n" \o l : t \in shorter, l \in PlainLines}

\* lines with an intensity keyword ahead of the duration
LeadingKeywords == {"tempo", "vo2max", "vo2 sprint"}
KeywordFirst(k, d) == Join(k, Join(d, "120% FTP"))
KeywordFirstLines == {KeywordFirst(k, d) : k \in LeadingKeywords, d \in DurationTokens \ {""}}

Texts == RichLines \cup TextsOf(MaxLines) \cup KeywordFirstLines

Init == /\ pc = "parse"
        /\ text \in Texts
        /\ lines = <<>>
        /\ line_idx = 0
        /\ steps = <<>>
        /\ error = <<>>
        /\ workout = <<>>
        /\ num_valid_steps = <<>>
        /\ step_index = 0
        /\ pos = 0
        /\ messages = <<>>
        /\ written = FALSE
        /\ total = <<>>
        /\ returned = <<>>

Spec == Init /\ [][Next]_vars

----------------------------------------------------------------------------
(* Workouts built directly from WorkoutStep and Workout objects and handed *)
(* to FitWorkoutBuilder                                                    *)

MaxRecords == 5

StepA == WorkoutStep([step_type |-> "STEADY", duration_seconds |-> FloatOfInt(300),
                      power_low_pct |-> FloatOfInt(80), name |-> "A"])
StepB == WorkoutStep([step_type |-> "STEADY", duration_seconds |-> FloatOfInt(60),
                      power_low_pct |-> FloatOfInt(110), name |-> "B"])
PlainSteps == {StepA, StepB}
RepeatCounts == {3, 4}

Repeat(count, inner) ==
    WorkoutStep([step_type |-> "REPEAT", duration_seconds |-> 0,
                 repeat_count |-> count, repeat_steps |-> inner])

\* the top-level steps that the encoder turns into exactly c records
StepsOfCost(c) ==
    {Repeat(n, inner) : n \in RepeatCounts, inner \in [1..(c - 1) -> PlainSteps]}
    \cup (IF c = 1 THEN PlainSteps ELSE {})

\* the step lists that the encoder turns into at most n records
RECURSIVE StepListsUpTo(_)
StepListsUpTo(n) ==
    {<<>>} \cup UNION {{<<st>> \o rest : st \in StepsOfCost(c), rest \in StepListsUpTo(n - c)} :
                          c \in 1..n}

\* single steps over the fields that _get_intensity reads
PowerPairs == {<<400, 400>>, <<550, 560>>, <<560, 560>>, <<550, 570>>, <<750, 750>>,
               <<1050, 1060>>, <<1060, 1060>>, <<1100, 1100>>}
StepNames == {"", "Warmup", "my COOLDOWN", "cooldown after warmup"}
StepTypes == {"STEADY", "RAMP", "RANGE", "OPEN", "WARMUP", "COOLDOWN", "RECOVERY"}
TargetTypes == {"POWER", "HEART_RATE", "CADENCE", "OPEN"}
Overrides == {"None", "ACTIVE", "RECOVERY"}

SingleSteps ==
    {WorkoutStep([step_type |-> t, duration_seconds |-> FloatOfInt(600), target_type |-> g,
                  power_low_pct |-> p[1], power_high_pct |-> p[2], name |-> n, intensity |-> i]) :
        t \in StepTypes, g \in TargetTypes, p \in PowerPairs, n \in StepNames, i \in Overrides}

\* steps with a heart-rate target, absolute or percentage, one bound or two,
\* as primary target or next to a power target
HrPairs == {<<1400, 1400>>, <<1400, 1500>>, <<800, 800>>, <<750, 850>>}

HrSteps ==
    {WorkoutStep([step_type |-> "STEADY", duration_seconds |-> FloatOfInt(600),
                  target_type |-> g, power_low_pct |-> p, power_high_pct |-> p,
                  hr_target_type |-> "HEART_RATE", hr_low |-> h[1], hr_high |-> h[2],
                  hr_is_percentage |-> b]) :
        g \in {"HEART_RATE", "POWER"}, p \in {0, 800}, h \in HrPairs, b \in BOOLEAN}

StepLists ==
    StepListsUpTo(MaxRecords) \cup {<<st>> : st \in SingleSteps} \cup {<<st>> : st \in HrSteps}

InitApi == /\ pc = "workout"
           /\ text = ""
           /\ lines = <<>>
           /\ line_idx = 0
           /\ steps \in StepLists
           /\ error = <<>>
           /\ workout = <<>>
           /\ num_valid_steps = <<>>
           /\ step_index = 0
           /\ pos = 0
           /\ messages = <<>>
           /\ written = FALSE
           /\ total = <<>>
           /\ returned = <<>>

SpecApi == InitApi /\ [][Build]_vars

\* the caller of FitWorkoutBuilder runs build() again on the same builder
MaxBuilds == 2

BuildAgain ==
    /\ pc = "built"
    /\ Len(returned) < MaxBuilds
    /\ pc' = "message"
    /\ UNCHANGED <<text, lines, line_idx, steps, error, workout, num_valid_steps, step_index,
                   pos, messages, written, total, returned>>

Rebuild == Build \/ BuildAgain

SpecRebuild == InitApi /\ [][Rebuild]_vars

----------------------------------------------------------------------------
(* The encoder's contract, stated over the records it has emitted *)

\* the records a step list calls for, in order: one per non-repeat step; per
\* repeat block its inner steps, then one marker
RECURSIVE Expected(_)
Expected(ss) ==
    IF ss = <<>> THEN <<>>
    ELSE (IF ss[1].step_type = "REPEAT"
          THEN [k \in 1..Len(ss[1].repeat_steps) |->
                   [kind |-> "inner", step |-> ss[1].repeat_steps[k], n |-> k]]
               \o <<[kind |-> "marker", step |-> ss[1], n |-> Len(ss[1].repeat_steps)]>>
          ELSE <<[kind |-> "step", step |-> ss[1], n |-> 0]>>)
         \o Expected(Tail(ss))

Encoding == pc \in {"steps_loop", "built", "done"}
Encoded == pc \in {"built", "done"}

\* the records called for by the top-level steps consumed so far
ExpectedSoFar == Expected(SubSeq(workout[1].steps, 1, pos))

ExampleWorkout == <<StepA, Repeat(3, <<StepB, StepA>>), StepB>>

\* C1: the records carry message_index 0, 1, ..., n-1 in emission order, from
\* one counter shared by top-level steps, inner steps and loop markers
C1_DenseIndices ==
    Encoding =>
        /\ \A k \in 1..Len(messages) : messages[k].message_index = k - 1
        /\ step_index = Len(messages)

C1_Witness ==
    /\ pc = "built"
    /\ workout[1].steps = ExampleWorkout
    /\ [k \in 1..Len(messages) |-> messages[k].message_index] = <<0, 1, 2, 3, 4>>
    /\ messages[4].duration_type = "REPEAT_UNTIL_STEPS_CMPLT"

\* C2: per repeat block the inner records come first, in order, then exactly
\* one marker; the marker's duration_step is the message_index of the block's
\* first inner record and its target_value is the block's count
C2_MarkerClosesBlock ==
    Encoding =>
        LET exp == ExpectedSoFar
        IN  /\ Len(messages) = Len(exp)
            /\ \A k \in 1..Len(exp) :
                 CASE exp[k].kind = "marker" ->
                        /\ messages[k].duration_type = "REPEAT_UNTIL_STEPS_CMPLT"
                        /\ messages[k].target_value = exp[k].step.repeat_count
                        /\ exp[k].n >= 1 =>
                             messages[k].duration_step = <<messages[k - exp[k].n].message_index>>
                   [] exp[k].kind = "inner" ->
                        /\ messages[k].duration_type = "TIME"
                        /\ messages[k].workout_step_name = exp[k].step.name
                        /\ messages[k].duration_step = <<>>
                   [] OTHER ->
                        /\ messages[k].duration_type = "TIME"
                        /\ messages[k].duration_step = <<>>

C2_Witness ==
    /\ pc = "built"
    /\ workout[1].steps = <<StepA, Repeat(3, <<StepB>>), Repeat(4, <<StepA>>)>>
    /\ messages[3].duration_step = <<1>> /\ messages[3].target_value = 3
    /\ messages[5].duration_step = <<3>> /\ messages[5].target_value = 4

\* C3: num_valid_steps, set before any record is emitted, is the number of
\* records emitted: 1 per non-repeat step, 1 + len(inner) per repeat block
C3_HeaderCount ==
    /\ pc \in {"steps", "steps_loop"} \cup {"built", "done"} => num_valid_steps # <<>>
    /\ num_valid_steps = <<>> => messages = <<>>
    /\ Encoded => /\ num_valid_steps = <<Len(messages)>>
                  /\ Len(messages) = Len(Expected(workout[1].steps))

C3_Witness ==
    /\ pc = "built"
    /\ workout[1].steps = ExampleWorkout
    /\ num_valid_steps = <<5>>
    /\ Len(messages) = 5

\* C5 (as claimed): a Workout never holds an empty step list, so the builder
\* never runs on one
C5_EmptyRejected ==
    workout # <<>> => workout[1].steps # <<>>

\* C6: total_duration_seconds is the sum over the top-level steps of the
\* duration (non-repeat) or of the inner durations times the count (repeat),
\* and is never negative
ClaimTerm(st) ==
    IF st.step_type = "REPEAT"
    THEN LET RECURSIVE Inner(_)
             Inner(k) == IF k = 0 THEN 0 ELSE Inner(k - 1) + st.repeat_steps[k].duration_seconds
         IN  Inner(Len(st.repeat_steps)) * st.repeat_count
    ELSE st.duration_seconds

RECURSIVE ClaimTotal(_, _)
ClaimTotal(ss, k) == IF k = 0 THEN 0 ELSE ClaimTotal(ss, k - 1) + ClaimTerm(ss[k])

C6_TotalDuration ==
    total # <<>> =>
        /\ total[1] = ClaimTotal(workout[1].steps, Len(workout[1].steps))
        /\ total[1] >= 0

C6_Witness ==
    /\ workout # <<>>
    /\ workout[1].steps = <<StepA, Repeat(4, <<StepB>>)>>
    /\ total = <<FloatOfInt(540)>>

\* C8 (as claimed): override, else Open -> Active, else HeartRate -> Active,
\* else warmup/cooldown hints, else by average power: < 56 Recovery,
\* >= 106 Interval, otherwise Active
ClaimedIntensity(st) ==
    LET hint(w, t) == st.step_type = t \/ Contains(Lower(st.name), w)
    IN  IF st.intensity # "None" THEN st.intensity
        ELSE IF st.step_type = "OPEN" THEN "ACTIVE"
        ELSE IF st.target_type = "HEART_RATE" THEN "ACTIVE"
        ELSE IF hint("warmup", "WARMUP") THEN "WARMUP"
        ELSE IF hint("cooldown", "COOLDOWN") THEN "COOLDOWN"
        ELSE IF st.power_low_pct + st.power_high_pct < 2 * 560 THEN "RECOVERY"
        ELSE IF st.power_low_pct + st.power_high_pct >= 2 * 1060 THEN "INTERVAL"
        ELSE "ACTIVE"

C8_IntensityAsClaimed ==
    Encoding =>
        \A k \in 1..Len(messages) :
            ExpectedSoFar[k].kind # "marker" =>
                messages[k].intensity = ClaimedIntensity(ExpectedSoFar[k].step)

\* C8 (amended): as claimed, except that a step of type RECOVERY is Recovery
\* whatever its average power
AmendedIntensity(st) ==
    IF /\ st.intensity = "None"
       /\ st.step_type = "RECOVERY"
       /\ st.target_type # "HEART_RATE"
       /\ ~Contains(Lower(st.name), "warmup")
       /\ ~Contains(Lower(st.name), "cooldown")
    THEN "RECOVERY"
    ELSE ClaimedIntensity(st)

C8_Intensity ==
    Encoding =>
        \A k \in 1..Len(messages) :
            ExpectedSoFar[k].kind # "marker" =>
                messages[k].intensity = AmendedIntensity(ExpectedSoFar[k].step)

C8_Witness ==
    /\ pc = "built"
    /\ Len(workout[1].steps) = 1
    /\ workout[1].steps[1].step_type = "RAMP"
    /\ workout[1].steps[1].target_type = "POWER"
    /\ workout[1].steps[1].intensity = "None"
    /\ workout[1].steps[1].name = ""
    /\ workout[1].steps[1].power_low_pct = 550
    /\ workout[1].steps[1].power_high_pct = 570
    /\ messages[1].intensity = "ACTIVE"

----------------------------------------------------------------------------
(* The parser's contract, stated over create_workout_fit run on a text *)

\* the ways each one-line text of the model is composed
Composed == {<<TextOf(c), c>> : c \in Compositions}
CompositionsOf == [t \in RichLines |-> {p[2] : p \in {q \in Composed : q[1] = t}}]

OneLine == text \in DOMAIN CompositionsOf
Parsed == pc = "workout"
ParseEnded == pc \in {"workout", "raised"}

\* the step a line stands for: the inner step of a repeat, else the step
Unwrapped(st) == IF st.step_type = "REPEAT" THEN st.repeat_steps[1] ELSE st

\* C4: a line that fails to parse fails the whole parse: parse raises
\* WorkoutParseError and returns no steps, no Workout is built, the encoder
\* is not invoked and no file is written
SomeLineFailsIn(t) ==
    LET ls == NonBlankLines(t)
    IN  \E k \in 1..Len(ls) : ~IsComment(ls[k]) /\ ~ParseLine(ls[k]).ok

TextFails == [t \in Texts |-> SomeLineFailsIn(t)]

SomeLineFails == TextFails[text]

C4_FailFast ==
    SomeLineFails =>
        /\ pc \in {"parse", "parse_loop", "raised"}
        /\ pc = "parse_loop" => line_idx < Len(lines)
        /\ pc = "raised" => /\ steps = <<>>
                            /\ error # <<>>
                            /\ error[1].type = "WorkoutParseError"
        /\ workout = <<>>
        /\ num_valid_steps = <<>>
        /\ messages = <<>>
        /\ ~written

C4_Witness ==
    /\ text = "5min 80% FTP\n5min @90rpm\n3x 2min 100% FTP"
    /\ pc = "raised"
    /\ line_idx = 2
    /\ steps = <<>>
    /\ workout = <<>>

\* C7 (as claimed): duration plus N-M% FTP parses to RANGE with low N and
\* high M; duration plus N% FTP parses to STEADY with low = high = N
C7_TwoBoundIsRange ==
    Parsed =>
        \A dur \in DurationTokens \ {""} :
            /\ text = Join(dur, "85-95% FTP") =>
                   /\ Len(steps) = 1
                   /\ steps[1].step_type = "RANGE"
                   /\ steps[1].power_low_pct = FloatOfInt(85)
                   /\ steps[1].power_high_pct = FloatOfInt(95)
            /\ text = Join(dur, "80% FTP") =>
                   /\ Len(steps) = 1
                   /\ steps[1].step_type = "STEADY"
                   /\ steps[1].power_low_pct = FloatOfInt(80)
                   /\ steps[1].power_high_pct = FloatOfInt(80)

\* C9: a leading prefix 'Nx ' with N >= 2 wraps the step S of the remainder
\* in a Repeat with count N and inner steps [S]; no prefix, or N <= 1, gives
\* the unwrapped step; no Repeat of a parsed step list is empty or nested
PrefixCount(pre) == CASE pre = "3x " -> 3 [] pre = "1x " -> 1 [] pre = "2 X " -> 2 [] OTHER -> 0

WellFormedRepeats(ss) ==
    \A k \in 1..Len(ss) :
        ss[k].step_type = "REPEAT" =>
            /\ Len(ss[k].repeat_steps) = 1
            /\ ss[k].repeat_steps[1].step_type # "REPEAT"
            /\ ss[k].repeat_count >= 2

Canonical(kind) ==
    CASE kind = "WARMUP" ->
            [step_type |-> "RAMP", target_type |-> "POWER", low |-> 400, high |-> 750,
             notes |-> "Easy spin, gradually increase effort", intensity |-> "WARMUP"]
      [] kind = "COOLDOWN" ->
            [step_type |-> "RAMP", target_type |-> "POWER", low |-> 650, high |-> 400,
             notes |-> "Easy spin, relax", intensity |-> "COOLDOWN"]
      [] kind = "RECOVERY" ->
            [step_type |-> "STEADY", target_type |-> "POWER", low |-> 500, high |-> 500,
             notes |-> "Easy spinning, recover", intensity |-> "RECOVERY"]
      [] kind = "OPEN" ->
            [step_type |-> "OPEN", target_type |-> "OPEN", low |-> 0, high |-> 0,
             notes |-> "Ride at your own pace", intensity |-> "ACTIVE"]

IsCanonical(st, kind) ==
    /\ st.step_type = Canonical(kind).step_type
    /\ st.target_type = Canonical(kind).target_type
    /\ st.power_low_pct = Canonical(kind).low
    /\ st.power_high_pct = Canonical(kind).high
    /\ st.hr_target_type = "None" /\ st.hr_low = 0 /\ st.hr_high = 0
    /\ st.cadence_low = <<>> /\ st.cadence_high = <<>>

TokenSeconds(tok) ==
    CASE tok = "5min" -> 5 * 60 * 10
      [] tok = "90 s" -> 90 * 10
      [] tok = "1.5H" -> 15 * 3600
      [] tok = "recovery 20 sec" -> 20 * 10
      [] OTHER -> 0

LineSeconds(c) == IF c.dur # "" THEN TokenSeconds(c.dur) ELSE TokenSeconds(c.tgt)

HasPower(tgt) == Contains(Lower(tgt), "ftp")
HasHrPct(tgt) == Contains(Lower(tgt), "%hr") \/ Contains(Lower(tgt), "% hr")
HasHrAbs(tgt) == Contains(Lower(tgt), "bpm")

\* the first heart-rate bound written on a token, in tenths
HrLowOf(tgt) ==
    CASE tgt = "150 bpm" -> 1500
      [] tgt = "75-85% HR @90rpm" -> 750
      [] tgt = "80% FTP 140bpm 80%HR" -> 800
      [] OTHER -> 0

C11_TargetSelection ==
    (ParseEnded /\ OneLine) =>
        \A c \in CompositionsOf[text] :
            (c.dur # "" /\ FirstKeyword(SPECIAL_KEYWORDS, Lower(Join(c.dur, c.tgt))) = <<>>) =>
                LET st == Unwrapped(steps[1])
                    hr == HasHrPct(c.tgt) \/ HasHrAbs(c.tgt)
                IN  IF HasPower(c.tgt)
                    THEN /\ Parsed
                         /\ st.target_type = "POWER"
                         /\ st.step_type \in {"STEADY", "RAMP", "RANGE"}
                         /\ st.hr_target_type = IF hr THEN "HEART_RATE" ELSE "None"
                         /\ st.hr_is_percentage = HasHrPct(c.tgt)
                         /\ st.hr_low = HrLowOf(c.tgt)
                    ELSE IF hr
                    THEN /\ Parsed
                         /\ st.step_type = "STEADY"
                         /\ st.target_type = "HEART_RATE"
                         /\ st.hr_target_type = "HEART_RATE"
                         /\ st.hr_is_percentage = HasHrPct(c.tgt)
                         /\ st.hr_low = HrLowOf(c.tgt)
                    ELSE /\ pc = "raised"
                         /\ steps = <<>>
                         /\ Contains(error[1].msg, "No power or HR target found in: " \o text)

C11_Witness ==
    /\ text = "5min 80% FTP 140bpm 80%HR"
    /\ Parsed
    /\ steps[1].target_type = "POWER"
    /\ steps[1].power_low_pct = FloatOfInt(80)
    /\ steps[1].hr_target_type = "HEART_RATE"
    /\ steps[1].hr_is_percentage
    /\ steps[1].hr_low = FloatOfInt(80)

\* the record that encodes the step of the first line of the workout: an
\* inner step is emitted ahead of its repeat marker
FirstStep == Unwrapped(workout[1].steps[1])
HasFirstStep ==
    /\ workout[1].steps # <<>>
    /\ workout[1].steps[1].step_type = "REPEAT" => workout[1].steps[1].repeat_steps # <<>>

\* round to the nearest integer, halves away from zero (values in tenths)
RoundHalfAway(x) == IF x >= 0 THEN (x + 5) \div 10 ELSE -((5 - x) \div 10)

\* C12 (as claimed): the low and high target values of the record of a Power
\* step are its power percents rounded to the nearest integer, halves away
\* from zero
C12_PowerRounded ==
    (/\ Encoded
     /\ HasFirstStep
     /\ FirstStep.target_type = "POWER"
     /\ FirstStep.step_type # "OPEN") =>
            /\ messages[1].target_type = "POWER"
            /\ messages[1].custom_target_value_low = <<RoundHalfAway(FirstStep.power_low_pct)>>
            /\ messages[1].custom_target_value_high = <<RoundHalfAway(FirstStep.power_high_pct)>>

\* the whole number a value in tenths stands for
WholeOf(x) == CHOOSE n \in 0..1000 : n * 10 = x

\* C13: the record of a step with target kind HeartRate carries bpm + 100 in
\* both bounds when the target is absolute and the plain percent in both
\* bounds when it is a percentage of the maximum
C13_HeartRateEncoding ==
    (/\ Encoded
     /\ HasFirstStep
     /\ FirstStep.target_type = "HEART_RATE"
     /\ FirstStep.step_type # "OPEN") =>
            /\ messages[1].target_type = "HEART_RATE"
            /\ messages[1].target_value = 0
            /\ IF FirstStep.hr_is_percentage
               THEN /\ messages[1].custom_target_value_low = <<WholeOf(FirstStep.hr_low)>>
                    /\ messages[1].custom_target_value_high = <<WholeOf(FirstStep.hr_high)>>
               ELSE /\ messages[1].custom_target_value_low = <<WholeOf(FirstStep.hr_low) + 100>>
                    /\ messages[1].custom_target_value_high = <<WholeOf(FirstStep.hr_high) + 100>>

C13_Witness ==
    /\ Encoded
    /\ Len(workout[1].steps) = 1
    /\ workout[1].steps[1].target_type = "HEART_RATE"
    /\ ~workout[1].steps[1].hr_is_percentage
    /\ workout[1].steps[1].hr_low = FloatOfInt(140)
    /\ workout[1].steps[1].hr_high = FloatOfInt(150)
    /\ messages[1].custom_target_value_low = <<240>>
    /\ messages[1].custom_target_value_high = <<250>>

\* the lines that start with the prefix, the note or the duration carry the
\* duration of their first duration token
DurationFirstLines ==
    (Parsed /\ OneLine) =>
        \A c \in CompositionsOf[text] :
            LineSeconds(c) # 0 => Unwrapped(steps[1]).duration_seconds = LineSeconds(c)

\* the lines that start with an intensity keyword carry the duration of their
\* duration token
KeywordFirstDurations ==
    Parsed =>
        \A k \in LeadingKeywords, d \in DurationTokens \ {""} :
            text = KeywordFirst(k, d) => steps[1].duration_seconds = TokenSeconds(d)

\* C14 (as claimed): the duration of the step of a line is that of its first
\* duration token: N seconds, N x 60 or N x 3600 by the class of the unit,
\* whatever prefix, keywords, targets and note stand on the line
C14_DurationOfToken == DurationFirstLines /\ KeywordFirstDurations

\* C15: _create_workout_message and _create_workout_steps leave the Workout
\* and every step of it as they were; _create_workout_steps starts from
\* step_index 0, and every call of it on the same workout returns the same
\* records, indices and back-references included
EncoderAtWork == pc \in {"message", "steps", "steps_loop"}

C15_EncodingIsPure ==
    /\ [](\A i, j \in 1..Len(returned) : returned[i] = returned[j])
    /\ [][EncoderAtWork => (workout' = workout /\ steps' = steps)]_vars
    /\ [][(pc = "steps" /\ pc' = "steps_loop") => step_index' = 0]_vars

C15_Witness ==
    /\ pc = "built"
    /\ workout[1].steps = ExampleWorkout
    /\ Len(returned) = 2
    /\ returned[2] = returned[1]
    /\ [k \in 1..Len(returned[2]) |-> returned[2][k].message_index] = <<0, 1, 2, 3, 4>>
    /\ returned[2][4].duration_step = <<1>>

\* two steps that differ in their notes at most
SameButNotes(a, b) ==
    /\ a.step_type = b.step_type
    /\ a.repeat_count = b.repeat_count
    /\ a.name = b.name
    /\ Len(a.repeat_steps) = Len(b.repeat_steps)
    /\ [Unwrapped(a) EXCEPT !.notes = ""] = [Unwrapped(b) EXCEPT !.notes = ""]

\* the line of composition c parses as the line without its note does
NoteKeepsParse(c) ==
    LET plain == ParseLine(Compose(c.pre, c.dur, c.tgt, "", "end"))
    IN  /\ Parsed <=> plain.ok
        /\ Parsed => /\ SameButNotes(steps[1], plain.step)
                     /\ Unwrapped(steps[1]).notes = c.note

\* C16 (as claimed): one quoted note put in front of a line (ahead of the
\* repeat prefix when there is one), between its tokens or at its end changes
\* the notes of the parsed step and nothing else
C16_NoteChangesOnlyNotes ==
    (ParseEnded /\ OneLine) =>
        \A c \in CompositionsOf[text] : c.note # "" => NoteKeepsParse(c)

\* the lines of the input text as written, and the first of them that is
\* neither blank nor a comment and does not parse
OriginalLines == SplitLines(text, "")

FailsAt(k) ==
    LET l == Strip(OriginalLines[k])
    IN  l # "" /\ ~IsComment(l) /\ ~ParseLine(l).ok

FirstFailing == CHOOSE k \in 1..Len(OriginalLines) : FailsAt(k) /\ \A j \in 1..(k - 1) : ~FailsAt(j)

\* C17 (as claimed): the error of a line that fails names the text of the
\* line and its 1-based position in the input text, whatever blank lines and
\* comment lines stand before it
C17_LineNumberInText ==
    (pc = "raised" /\ SomeLineFails) =>
        StartsWith(error[1].msg,
                   "Line " \o StrOf(FirstFailing) \o ": Failed to parse '"
                   \o Strip(OriginalLines[FirstFailing]) \o "'")
====
